---- MODULE Spec2Model ----
(***************************************************************************)
(* Model of the product review canister (src/src/index.ts).                *)
(*                                                                         *)
(* State: the StableBTreeMap productStorage, the host clock read by        *)
(* ic.time(), the ids uuidv4() has handed out, and the outcome of the last *)
(* canister call.  Every exported function is one action.                  *)
(*                                                                         *)
(* A rating is a JavaScript number (IEEE-754 double).  The ratings that    *)
(* the model passes in are multiples of 1/Scale, held as the integer       *)
(* v * Scale, and NaN.  The value calculateAverageRating returns is a      *)
(* double in full: exponent and 53 mantissa bits.                          *)
(***************************************************************************)
EXTENDS Integers, Sequences, FiniteSets, TLC

VARIABLES productStorage, now, usedIds, result

vars == <<productStorage, now, usedIds, result>>

----------------------------------------------------------------------------
(* Bounds *)

MaxTime == 1         \* ic.time() ranges over 0..MaxTime
MaxRatings == 2      \* ratings are added while the store holds fewer than this in all
MaxAvgLen == 4       \* SpecAvg: every ratings sequence over 1..5 up to this length
MaxSortedLen == 8    \* SpecAvg: every non-decreasing ratings sequence up to this length

----------------------------------------------------------------------------
(* Numbers *)

Scale == 2
NaN == 0 - 1

Num(v) == v * Scale

\* IEEE comparisons: any comparison with NaN is false
Less(a, b) == a # NaN /\ b # NaN /\ a < b

\* IEEE addition of two model numbers (exact on multiples of 1/Scale)
Plus(a, b) == IF a = NaN \/ b = NaN THEN NaN ELSE a + b

\* the strings uuidv4 can hand out, in the key order of the B-tree
IdOrder == <<"p", "q">>
Ids == {IdOrder[i] : i \in 1..Len(IdOrder)}

Times == 0..MaxTime

\* 0, 3, 2.5 and 6
RatingInputs == {Num(0), Num(3), 5, Num(6)}

AddPayloads ==
    { [name |-> "a", description |-> "d", URL |-> "u"],
      [name |-> "",  description |-> "d", URL |-> "u"],
      [name |-> "a", description |-> "",  URL |-> "u"],
      [name |-> "a", description |-> "d", URL |-> ""] }

UpdatePayloads ==
    { [name |-> "",  description |-> "e", URL |-> "v"] }

None == <<>>
Some(t) == <<t>>

----------------------------------------------------------------------------
(* Doubles: sum / length, toFixed(2), parseFloat                           *)
(*                                                                         *)
(* A positive double is 2^exp * 1.f, its 52 fraction bits f held as four   *)
(* limbs of 13 bits, most significant first.                               *)

Limb == 8192
Limbs == 4

DNaN == [kind |-> "NaN", exp |-> 0, mant |-> <<0, 0, 0, 0>>]
DZero == [kind |-> "zero", exp |-> 0, mant |-> <<0, 0, 0, 0>>]

\* scale n/d by powers of two until d <= n < 2d; e is the binary exponent
RECURSIVE Normalise(_, _, _)
Normalise(n, d, e) ==
    IF n < d THEN Normalise(2 * n, d, e - 1)
    ELSE IF n >= 2 * d THEN Normalise(n, 2 * d, e + 1)
    ELSE <<n, d, e>>

\* long division of r/d (r < d) in base Limb: the limbs, then the remainder
LongDivide(r, d) ==
    LET t1 == r * Limb
        t2 == (t1 % d) * Limb
        t3 == (t2 % d) * Limb
        t4 == (t3 % d) * Limb
    IN <<t1 \div d, t2 \div d, t3 \div d, t4 \div d, t4 % d>>

\* the limbs plus one unit in the last place; TRUE in place 5 on carry out
Increment(m) ==
    LET s4 == m[4] + 1
        s3 == m[3] + s4 \div Limb
        s2 == m[2] + s3 \div Limb
        s1 == m[1] + s2 \div Limb
    IN <<s1 % Limb, s2 % Limb, s3 % Limb, s4 % Limb, s1 \div Limb = 1>>

\* the double nearest to n/d, ties to even (n >= 0, d > 0)
Double(n, d) ==
    IF n = 0 THEN DZero
    ELSE LET nd == Normalise(n, d, 0)
             q == LongDivide(nd[1] - nd[2], nd[2])
             m == SubSeq(q, 1, Limbs)
             rem == q[Limbs + 1]
             up == 2 * rem > nd[2] \/ (2 * rem = nd[2] /\ m[Limbs] % 2 = 1)
             inc == Increment(m)
         IN IF ~up THEN [kind |-> "num", exp |-> nd[3], mant |-> m]
            ELSE [kind |-> "num",
                  exp |-> IF inc[Limbs + 1] THEN nd[3] + 1 ELSE nd[3],
                  mant |-> SubSeq(inc, 1, Limbs)]

\* sum / product.Ratings.length, sum a model number
Divide(sum, length) ==
    IF sum = NaN THEN DNaN ELSE Double(sum, Scale * length)

\* 100 * 1.f in base Limb: the integer part (100..199), then the fraction limbs
Times100(m) ==
    LET c4 == 100 * m[4]
        c3 == 100 * m[3] + c4 \div Limb
        c2 == 100 * m[2] + c3 \div Limb
        c1 == 100 * m[1] + c2 \div Limb
    IN <<100 + c1 \div Limb, c1 % Limb, c2 % Limb, c3 % Limb, c4 % Limb>>

\* toFixed(2) cutting the digits off instead of rounding
toFixed2_truncate(x) ==
    IF x.kind = "NaN" THEN NaN
    ELSE IF x.kind = "zero" THEN 0
    ELSE LET w == Times100(x.mant)
             e == x.exp
         IN IF e >= 0 THEN w[1] * 2^e + w[2] \div 2^(13 - e)
            ELSE IF e >= 0 - 8 THEN w[1] \div 2^(0 - e)
            ELSE 0

\* x.toFixed(2) for x < 4096: the integer n with n/100 nearest to x, the
\* larger one of two; the string "i.ff" is held as n, the string "NaN" as NaN
toFixed2(x) ==
    IF x.kind = "NaN" THEN NaN
    ELSE IF x.kind = "zero" THEN 0
    ELSE LET w == Times100(x.mant)
             e == x.exp
             \* 100x = 2^e * w[1].w[2]w[3]w[4]w[5] : floor, and the bit after it
             floor == IF e >= 0 THEN w[1] * 2^e + w[2] \div 2^(13 - e)
                      ELSE IF e >= 0 - 8 THEN w[1] \div 2^(0 - e)
                      ELSE 0
             half == IF e >= 0 THEN (w[2] \div 2^(12 - e)) % 2
                     ELSE IF e >= 0 - 8 THEN (w[1] \div 2^(0 - e - 1)) % 2
                     ELSE 0
         IN floor + half

\* parseFloat of a string toFixed(2) produced: the double nearest to n/100
parseFloat(s) == IF s = NaN THEN DNaN ELSE Double(s, 100)

----------------------------------------------------------------------------
(* StableBTreeMap<string, Product> *)

\* a lookup that falls back on the first record
get_first(store, id) ==
    IF id \in DOMAIN store THEN <<store[id]>>
    ELSE IF DOMAIN store # {}
         THEN <<store[CHOOSE k \in DOMAIN store : TRUE]>>
         ELSE <<>>

get(store, id) == IF id \in DOMAIN store THEN <<store[id]>> ELSE <<>>

insert(store, id, product) ==
    [k \in DOMAIN store \cup {id} |-> IF k = id THEN product ELSE store[k]]

\* a removal that empties the map
remove_clear(store, id) ==
    IF id \in DOMAIN store THEN [k \in {} |-> store[k]] ELSE store

remove(store, id) == [k \in DOMAIN store \ {id} |-> store[k]]

\* the records in key order
RECURSIVE values(_)
values(store) ==
    IF DOMAIN store = {} THEN <<>>
    ELSE LET i == CHOOSE x \in 1..Len(IdOrder) :
                      /\ IdOrder[x] \in DOMAIN store
                      /\ \A y \in 1..(x - 1) : IdOrder[y] \notin DOMAIN store
         IN <<store[IdOrder[i]]>> \o values(remove(store, IdOrder[i]))

----------------------------------------------------------------------------
(* Helpers of the handlers *)

\* the check without the upper end
validateRating_noUpper(rating) == Less(rating, Num(1))

\* validateRating: TRUE when it throws
validateRating(rating) == Less(rating, Num(1)) \/ Less(Num(5), rating)

RatingError == <<"Rating should be an integer between 1 and 5.">>

\* `Product with id=${id} not found`
NotFoundMessage(id) == <<"Product with id=", id, " not found">>

\* !s for a string
Falsy(s) == s = ""

\* a generator that can repeat an id
uuidv4_any == Ids

\* uuidv4(): an id it has not produced before
uuidv4 == Ids \ usedIds

\* Ratings.reduce((acc, current) => acc + current, 0)
RECURSIVE reduce(_, _)
reduce(ratings, acc) ==
    IF ratings = <<>> THEN acc
    ELSE reduce(Tail(ratings), Plus(acc, Head(ratings)))

\* the number of ratings a store holds
RECURSIVE Stored(_)
Stored(store) ==
    IF DOMAIN store = {} THEN 0
    ELSE LET k == CHOOSE x \in DOMAIN store : TRUE
         IN Len(store[k].Ratings) + Stored(remove(store, k))

averageRating(ratings) ==
    parseFloat(toFixed2(Divide(reduce(ratings, 0), Len(ratings))))

\* the check without the URL
missingFields_noURL(payload) ==
    payload.name = "" \/ payload.description = ""

\* !name || !description || !URL
missingFields(payload) ==
    Falsy(payload.name) \/ Falsy(payload.description) \/ Falsy(payload.URL)

\* a record that counts its creation as an update
newProduct_stamped(id, payload, t) ==
    [id |-> id,
     Ratings |-> <<>>,
     created_at |-> t,
     updated_at |-> <<t>>,
     name |-> payload.name,
     description |-> payload.description,
     URL |-> payload.URL]

\* the record addProduct builds
newProduct(id, payload, t) ==
    [id |-> id,
     Ratings |-> <<>>,
     created_at |-> t,
     updated_at |-> None,
     name |-> payload.name,
     description |-> payload.description,
     URL |-> payload.URL]

\* the rating put in front
ratedProduct_front(product, rating) ==
    [product EXCEPT !.Ratings = <<rating>> \o @]

\* a rating written onto a record rebuilt without its update
ratedProduct_rebuilt(product, rating) ==
    [product EXCEPT !.Ratings = Append(@, rating), !.updated_at = <<>>]

\* { ...product, Ratings: [...product.Ratings, rating] }
ratedProduct(product, rating) ==
    [product EXCEPT !.Ratings = Append(@, rating)]

\* an update that starts the ratings afresh
updatedProduct_reset(product, payload, t) ==
    [product EXCEPT !.name = payload.name,
                    !.description = payload.description,
                    !.URL = payload.URL,
                    !.Ratings = <<>>,
                    !.updated_at = <<t>>]

\* an update that leaves updated_at alone
updatedProduct_unstamped(product, payload, t) ==
    [product EXCEPT !.name = payload.name,
                    !.description = payload.description,
                    !.URL = payload.URL]

\* an update that stamps created_at too
updatedProduct_recreated(product, payload, t) ==
    [product EXCEPT !.name = payload.name,
                    !.description = payload.description,
                    !.URL = payload.URL,
                    !.created_at = t,
                    !.updated_at = <<t>>]

\* an update that stamps updated_at the first time only
updatedProduct_firstOnly(product, payload, t) ==
    [product EXCEPT !.name = payload.name,
                    !.description = payload.description,
                    !.URL = payload.URL,
                    !.updated_at = IF @ = <<>> THEN <<t>> ELSE @]

\* an update that skips the empty fields of the payload
updatedProduct_skipEmpty(product, payload, t) ==
    [product EXCEPT !.name = IF payload.name = "" THEN @ ELSE payload.name,
                    !.description =
                        IF payload.description = "" THEN @ ELSE payload.description,
                    !.URL = IF payload.URL = "" THEN @ ELSE payload.URL,
                    !.updated_at = <<t>>]

\* { ...product, ...payload, updated_at: Opt.Some(ic.time()) }
updatedProduct(product, payload, t) ==
    [product EXCEPT !.name = payload.name,
                    !.description = payload.description,
                    !.URL = payload.URL,
                    !.updated_at = Some(t)]

Ok(v) == [kind |-> "Ok", val |-> v]
Err(m) == [kind |-> "Err", val |-> m]
Trap(m) == [kind |-> "Trap", val |-> m]

\* r @@ [op |-> ..., ...]: the outcome of a call with its name and arguments
Called(call, r) == call @@ r

----------------------------------------------------------------------------
(* The canister's state after deployment *)

Init ==
    /\ productStorage = [k \in {} |-> k]
    /\ now = 0
    /\ usedIds = {}
    /\ result = [op |-> "init", kind |-> "none"]

----------------------------------------------------------------------------
(* The exported functions; t is the time of the call's message *)

getProducts(t) ==
    /\ t >= now
    /\ now' = t
    /\ result' = Called([op |-> "getProducts"], Ok(values(productStorage)))
    /\ UNCHANGED <<productStorage, usedIds>>

\* a lookup made with remove
getProduct_take(id, t) ==
    /\ t >= now
    /\ now' = t
    /\ LET product == get(productStorage, id)
       IN /\ productStorage' = remove(productStorage, id)
          /\ result' = Called([op |-> "getProduct", id |-> id],
                              IF product = <<>> THEN Err(NotFoundMessage(id))
                              ELSE Ok(product[1]))
    /\ UNCHANGED usedIds

getProduct(id, t) ==
    /\ t >= now
    /\ now' = t
    /\ LET product == get(productStorage, id)
       IN result' = Called([op |-> "getProduct", id |-> id],
                           IF product = <<>> THEN Err(NotFoundMessage(id))
                           ELSE Ok(product[1]))
    /\ UNCHANGED <<productStorage, usedIds>>

addProduct(payload, t) ==
    /\ t >= now
    /\ now' = t
    /\ IF missingFields(payload)
       THEN /\ result' = Called([op |-> "addProduct", payload |-> payload],
                                Err(<<"Missing required fields">>))
            /\ UNCHANGED <<productStorage, usedIds>>
       ELSE \E newId \in uuidv4 :
              LET product == newProduct(newId, payload, t)
              IN /\ usedIds' = usedIds \cup {newId}
                 /\ productStorage' = insert(productStorage, product.id, product)
                 /\ result' = Called([op |-> "addProduct", payload |-> payload],
                                     Ok(product))

calculateAverageRating(id, t) ==
    /\ t >= now
    /\ now' = t
    /\ LET product == get(productStorage, id)
       IN result' = Called([op |-> "calculateAverageRating", id |-> id],
                           IF product = <<>> THEN Err(NotFoundMessage(id))
                           ELSE IF Len(product[1].Ratings) = 0 THEN Ok(DZero)
                           ELSE Ok(averageRating(product[1].Ratings)))
    /\ UNCHANGED <<productStorage, usedIds>>

\* the rating validated before the lookup
rateProduct_validateFirst(id, rating, t) ==
    /\ t >= now
    /\ now' = t
    /\ LET product == get(productStorage, id)
           call == [op |-> "rateProduct", id |-> id, rating |-> rating]
       IN IF validateRating(rating)
          THEN /\ result' = Called(call, Trap(RatingError))
               /\ UNCHANGED productStorage
          ELSE IF product = <<>>
          THEN /\ result' = Called(call, Err(<<"Product not found.">>))
               /\ UNCHANGED productStorage
          ELSE LET updated == ratedProduct(product[1], rating)
               IN /\ Stored(productStorage) < MaxRatings
                  /\ productStorage' = insert(productStorage, id, updated)
                  /\ result' = Called(call, Ok(updated))
    /\ UNCHANGED usedIds

rateProduct(id, rating, t) ==
    /\ t >= now
    /\ now' = t
    /\ LET product == get(productStorage, id)
           call == [op |-> "rateProduct", id |-> id, rating |-> rating]
       IN IF product = <<>>
          THEN /\ result' = Called(call, Err(<<"Product not found.">>))
               /\ UNCHANGED productStorage
          ELSE IF validateRating(rating)
          THEN \* the throw traps the call: the canister's state is rolled back
               /\ result' = Called(call, Trap(RatingError))
               /\ UNCHANGED productStorage
          ELSE LET updated == ratedProduct(product[1], rating)
               IN /\ Stored(productStorage) < MaxRatings
                  /\ productStorage' = insert(productStorage, id, updated)
                  /\ result' = Called(call, Ok(updated))
    /\ UNCHANGED usedIds

updateProduct(id, payload, t) ==
    /\ t >= now
    /\ now' = t
    /\ LET product == get(productStorage, id)
           call == [op |-> "updateProduct", id |-> id, payload |-> payload]
       IN IF product = <<>>
          THEN /\ result' = Called(call, Err(NotFoundMessage(id)))
               /\ UNCHANGED productStorage
          ELSE LET updated == updatedProduct(product[1], payload, t)
               IN /\ productStorage' =
                         insert(productStorage, product[1].id, updated)
                  /\ result' = Called(call, Ok(updated))
    /\ UNCHANGED usedIds

deleteProduct(id, t) ==
    /\ t >= now
    /\ now' = t
    /\ LET deletedProduct == get(productStorage, id)
       IN /\ productStorage' = remove(productStorage, id)
          /\ result' = Called([op |-> "deleteProduct", id |-> id],
                              IF deletedProduct = <<>> THEN Err(NotFoundMessage(id))
                              ELSE Ok(deletedProduct[1]))
    /\ UNCHANGED usedIds

Next ==
    \/ \E t \in Times : getProducts(t)
    \/ \E id \in Ids, t \in Times : getProduct(id, t)
    \/ \E payload \in AddPayloads, t \in Times : addProduct(payload, t)
    \/ \E id \in Ids, t \in Times : calculateAverageRating(id, t)
    \/ \E id \in Ids, rating \in RatingInputs, t \in Times : rateProduct(id, rating, t)
    \/ \E id \in Ids, payload \in UpdatePayloads, t \in Times : updateProduct(id, payload, t)
    \/ \E id \in Ids, t \in Times : deleteProduct(id, t)

Spec == Init /\ [][Next]_vars

----------------------------------------------------------------------------
(* calculateAverageRating on its own: one product, its ratings any         *)
(* sequence over 1..5 of length up to MaxAvgLen, any non-decreasing one of *)
(* length up to MaxSortedLen, or the sequence of TieRatings                *)

Repeat(v, k) == [i \in 1..k |-> v]

ShortRatings ==
    UNION { [1..n -> {Num(v) : v \in 1..5}] : n \in 0..MaxAvgLen }

SortedRatings ==
    { Repeat(Num(1), c[1]) \o Repeat(Num(2), c[2]) \o Repeat(Num(3), c[3])
        \o Repeat(Num(4), c[4]) \o Repeat(Num(5), c[5]) :
      c \in { d \in [1..5 -> 0..MaxSortedLen] :
                d[1] + d[2] + d[3] + d[4] + d[5] <= MaxSortedLen } }

\* 39 ratings of 1 and one of 2: the mean 1.025 is halfway between two
\* hundredths and is not a double
TieRatings == { Repeat(Num(1), 39) \o <<Num(2)>> }

InitAvg ==
    /\ \E ratings \in ShortRatings \cup SortedRatings \cup TieRatings :
         productStorage =
             [k \in {IdOrder[1]} |->
                 [newProduct(k, [name |-> "a", description |-> "d", URL |-> "u"], 0)
                    EXCEPT !.Ratings = ratings]]
    /\ now = 0
    /\ usedIds = {IdOrder[1]}
    /\ result = [op |-> "init", kind |-> "none"]

NextAvg == \E id \in Ids, t \in Times : calculateAverageRating(id, t)

SpecAvg == InitAvg /\ [][NextAvg]_vars

TypeOK ==
    /\ DOMAIN productStorage \subseteq usedIds
    /\ usedIds \subseteq Ids
    /\ now \in Times

----------------------------------------------------------------------------
(* Properties.  result is the outcome of the last call, so in a step       *)
(* result' names the call the step makes and productStorage is the store   *)
(* the call found.                                                         *)

Keys == DOMAIN productStorage

Valid(payload) ==
    payload.name # "" /\ payload.description # "" /\ payload.URL # ""

IsNotFound(r, id) ==
    r.kind = "Err" /\ (r.val = NotFoundMessage(id) \/ r.val = <<"Product not found.">>)

\* C1: addProduct with name, description and URL all non-empty returns Ok
\* with a product that has no ratings, no updated_at and created_at equal to
\* the current time, stored under the returned id; a getProduct with that id
\* made right after it returns Ok with the same record.
C1_AddThenGet ==
    /\ [](result.op = "addProduct" /\ Valid(result.payload) =>
            /\ result.kind = "Ok"
            /\ result.val.Ratings = <<>>
            /\ result.val.updated_at = None
            /\ result.val.created_at = now
            /\ result.val.id \in Keys
            /\ productStorage[result.val.id] = result.val)
    /\ [][(/\ result.op = "addProduct"
           /\ result.kind = "Ok"
           /\ result'.op = "getProduct"
           /\ result'.id = result.val.id) =>
            (result'.kind = "Ok" /\ result'.val = result.val)]_vars

\* an addProduct has just succeeded at a time after the canister's first call
C1_Witness ==
    /\ result.op = "addProduct"
    /\ result.kind = "Ok"
    /\ result.val.created_at > 0
    /\ Cardinality(Keys) = 2

\* C2: addProduct with an empty name, description or URL returns the
\* validation error and leaves the store as it was.
C2_AddInvalid ==
    [][(result'.op = "addProduct" /\ ~Valid(result'.payload)) =>
        /\ result'.kind = "Err"
        /\ result'.val = <<"Missing required fields">>
        /\ productStorage' = productStorage]_vars

\* addProduct has just refused a payload whose URL alone is empty, the store
\* holding a product
C2_Witness ==
    /\ result.op = "addProduct"
    /\ result.kind = "Err"
    /\ result.payload.URL = ""
    /\ result.payload.name # ""
    /\ result.payload.description # ""
    /\ Keys # {}

IdCalls ==
    {"getProduct", "rateProduct", "calculateAverageRating", "updateProduct",
     "deleteProduct"}

\* C3: getProduct, rateProduct, calculateAverageRating, updateProduct and
\* deleteProduct called with an id that is not a key of the store return a
\* not-found error and leave the store as it was.
C3_AbsentId ==
    [][(result'.op \in IdCalls /\ result'.id \notin Keys) =>
        /\ IsNotFound(result', result'.id)
        /\ productStorage' = productStorage]_vars

\* rateProduct has just been refused for an absent id, with a rating in
\* range, while another product is stored
C3_Witness ==
    /\ result.op = "rateProduct"
    /\ result.kind = "Err"
    /\ result.rating = Num(3)
    /\ result.id \notin Keys
    /\ Keys # {}

InRange(r) == r \in {Num(v) : v \in 1..5}

\* C4: every rating of every stored product is an integer in 1..5, whatever
\* numbers rateProduct is called with.
C4_RatingsIntegerInRange ==
    \A k \in Keys :
        \A i \in 1..Len(productStorage[k].Ratings) :
            InRange(productStorage[k].Ratings[i])

\* a rating below 1 or above 5
Outside(r) == r # NaN /\ (r < Num(1) \/ r > Num(5))

\* C5: rateProduct on a stored id with a rating below 1 or above 5 ends in
\* the out-of-range fault, and the store after the call is the store before.
C5_OutOfRangeFault ==
    [][(result'.op = "rateProduct" /\ result'.id \in Keys /\ Outside(result'.rating)) =>
        /\ result'.kind = "Trap"
        /\ result'.val = RatingError
        /\ productStorage' = productStorage]_vars

\* rateProduct has just faulted on the rating 6 for a product that holds a
\* rating
C5_Witness ==
    /\ result.op = "rateProduct"
    /\ result.kind = "Trap"
    /\ result.rating = Num(6)
    /\ productStorage[result.id].Ratings # <<>>

\* C6: rateProduct on a stored id with a rating r in 1..5 returns Ok with the
\* record now stored under the id, which is the previous record with r
\* appended to its ratings and nothing else changed; the other keys keep
\* their records.
C6_RateAppends ==
    [][(result'.op = "rateProduct" /\ result'.id \in Keys /\ InRange(result'.rating)) =>
        /\ result'.kind = "Ok"
        /\ DOMAIN productStorage' = Keys
        /\ result'.val = productStorage'[result'.id]
        /\ result'.val.Ratings =
               Append(productStorage[result'.id].Ratings, result'.rating)
        /\ \A f \in {"id", "name", "description", "URL", "created_at", "updated_at"} :
               result'.val[f] = productStorage[result'.id][f]
        /\ \A k \in Keys \ {result'.id} : productStorage'[k] = productStorage[k]]_vars

\* rateProduct has just appended 3 to the ratings of an updated product that
\* held a rating, while a second product is stored
C6_Witness ==
    /\ result.op = "rateProduct"
    /\ result.kind = "Ok"
    /\ result.rating = Num(3)
    /\ Len(result.val.Ratings) = 2
    /\ result.val.updated_at # None
    /\ Cardinality(Keys) = 2

IsPrefix(s, t) == Len(s) <= Len(t) /\ SubSeq(t, 1, Len(s)) = s

\* C7: a product enters the store with no ratings, and in every step the
\* ratings of a product that stays stored are left as they are, except that
\* a successful rateProduct on its id appends the rating of that call; so
\* the earlier ratings are a prefix of the later ones, updateProduct included.
C7_AppendOnly ==
    [][\A k \in DOMAIN productStorage' :
          IF k \in Keys
          THEN /\ productStorage'[k].Ratings =
                     IF result'.op = "rateProduct" /\ result'.kind = "Ok" /\ result'.id = k
                     THEN Append(productStorage[k].Ratings, result'.rating)
                     ELSE productStorage[k].Ratings
               /\ IsPrefix(productStorage[k].Ratings, productStorage'[k].Ratings)
          ELSE /\ result'.op = "addProduct"
               /\ productStorage'[k].Ratings = <<>>]_vars

\* updateProduct has just succeeded on a product that holds two different
\* ratings
C7_Witness ==
    /\ result.op = "updateProduct"
    /\ result.kind = "Ok"
    /\ Len(productStorage[result.id].Ratings) = 2
    /\ productStorage[result.id].Ratings[1] # productStorage[result.id].Ratings[2]

RECURSIVE SumOf(_)
SumOf(r) == IF r = <<>> THEN 0 ELSE Head(r) \div Scale + SumOf(Tail(r))

Abs(x) == IF x < 0 THEN 0 - x ELSE x

\* C8: calculateAverageRating on a stored id whose ratings are integers in
\* 1..5 returns Ok(0) when there are none, and otherwise the double written
\* h/100 where h is an integer nearest to 100 * sum / length; [4,5] gives
\* 4.5 and [1,2,2] gives 1.67.
C8_Average ==
    (result.op = "calculateAverageRating" /\ result.id \in Keys
        /\ \A i \in 1..Len(productStorage[result.id].Ratings) :
               InRange(productStorage[result.id].Ratings[i])) =>
        LET r == productStorage[result.id].Ratings
            n == Len(r)
            total == SumOf(r)
        IN /\ result.kind = "Ok"
           /\ n = 0 => result.val = DZero
           /\ n > 0 =>
                \E h \in {(100 * total) \div n, (100 * total) \div n + 1} :
                    /\ result.val = Double(h, 100)
                    /\ 2 * Abs(h * n - 100 * total) <= n
           /\ r = <<Num(4), Num(5)>> => result.val = Double(450, 100)
           /\ r = <<Num(1), Num(2), Num(2)>> => result.val = Double(167, 100)

\* the average of seven 1s and a 2 has just been returned: 1.125, which is
\* halfway between 1.12 and 1.13
C8_Witness ==
    /\ result.op = "calculateAverageRating"
    /\ result.kind = "Ok"
    /\ result.id \in Keys
    /\ productStorage[result.id].Ratings = Repeat(Num(1), 7) \o <<Num(2)>>
    /\ result.val = Double(113, 100)

\* C9: updateProduct on a stored id returns Ok with the record now stored
\* under the id; its name, description and URL are the payload's, its
\* updated_at is present and not before its created_at; a getProduct with
\* that id made right after it returns the same record.
C9_UpdateThenGet ==
    /\ [](result.op = "updateProduct" /\ result.kind = "Ok" =>
            /\ result.id \in Keys
            /\ productStorage[result.id] = result.val
            /\ result.val.name = result.payload.name
            /\ result.val.description = result.payload.description
            /\ result.val.URL = result.payload.URL
            /\ result.val.updated_at # None
            /\ result.val.updated_at[1] >= result.val.created_at)
    /\ [][(result'.op = "updateProduct" /\ result'.id \in Keys) =>
            result'.kind = "Ok"]_vars
    /\ [][(/\ result.op = "updateProduct"
           /\ result.kind = "Ok"
           /\ result'.op = "getProduct"
           /\ result'.id = result.id) =>
            (result'.kind = "Ok" /\ result'.val = result.val)]_vars

\* updateProduct has just changed the fields of a rated product at a time
\* after its creation
C9_Witness ==
    /\ result.op = "updateProduct"
    /\ result.kind = "Ok"
    /\ result.val.updated_at[1] > result.val.created_at
    /\ result.val.name # "a"
    /\ result.val.Ratings # <<>>

\* C10: the id of a stored product is the key it is stored under, and the
\* id and created_at of a product do not change while it stays stored.
C10_IdAndCreationFixed ==
    /\ [](\A k \in Keys : productStorage[k].id = k)
    /\ [][\A k \in Keys \cap DOMAIN productStorage' :
             /\ productStorage'[k].id = productStorage[k].id
             /\ productStorage'[k].created_at = productStorage[k].created_at]_vars

\* a product has been rated and, later than its creation, updated, after
\* another product was deleted
C10_Witness ==
    \E k \in Keys :
        /\ productStorage[k].Ratings # <<>>
        /\ productStorage[k].updated_at # None
        /\ productStorage[k].updated_at[1] > productStorage[k].created_at
        /\ usedIds # Keys

\* the step is a successful call of op on the key k
Succeeds(op, k) ==
    result'.op = op /\ result'.kind = "Ok" /\ result'.id = k

\* C11: a product enters the store without updated_at, and in every step the
\* updated_at of a product that stays stored is left as it is (rateProduct
\* included), except that a successful updateProduct on its id sets it to
\* the time of that call; so it is absent until the first update and then
\* the time of the latest one.
C11_UpdatedAt ==
    [][\A k \in DOMAIN productStorage' :
          IF k \in Keys
          THEN productStorage'[k].updated_at =
                   IF Succeeds("updateProduct", k) THEN <<now'>>
                   ELSE productStorage[k].updated_at
          ELSE productStorage'[k].updated_at = None]_vars

\* a product updated at time 0 has just been updated again at a later time
C11_Witness ==
    /\ result.op = "updateProduct"
    /\ result.kind = "Ok"
    /\ result.val.updated_at = <<now>>
    /\ now > 0
    /\ result.val.name = ""
    /\ result.val.created_at = 0
    /\ \E k \in Keys \ {result.id} : productStorage[k].updated_at = None

\* C12: deleteProduct on a stored id returns Ok with the record stored under
\* it and removes that key and no other; a getProduct or a second
\* deleteProduct with the same id made right after it returns not-found.
C12_DeleteThenGone ==
    /\ [][(result'.op = "deleteProduct" /\ result'.id \in Keys) =>
            /\ result'.kind = "Ok"
            /\ result'.val = productStorage[result'.id]
            /\ DOMAIN productStorage' = Keys \ {result'.id}
            /\ \A k \in Keys \ {result'.id} : productStorage'[k] = productStorage[k]]_vars
    /\ [][(/\ result.op = "deleteProduct"
           /\ result.kind = "Ok"
           /\ result'.op \in {"getProduct", "deleteProduct"}
           /\ result'.id = result.id) =>
            (/\ result'.kind = "Err"
             /\ result'.val = NotFoundMessage(result.id)
             /\ productStorage' = productStorage)]_vars

\* deleteProduct has just removed a rated product and left the other one
C12_Witness ==
    /\ result.op = "deleteProduct"
    /\ result.kind = "Ok"
    /\ result.val.Ratings # <<>>
    /\ result.id \notin Keys
    /\ Keys # {}

\* the records of a sequence, as a set
Range(seq) == {seq[i] : i \in 1..Len(seq)}

\* C13: the store starts empty; a successful addProduct adds one record
\* under a key that was not stored and leaves the others as they were, a
\* successful deleteProduct takes one key away, and no other call changes
\* the number of keys; getProducts returns Ok with the stored records, each
\* once, so its length is the successful adds less the successful deletes.
C13_ListCountsAddsLessDeletes ==
    /\ Keys = {}
    /\ [][Cardinality(DOMAIN productStorage') =
            IF result'.op = "addProduct" /\ result'.kind = "Ok"
            THEN Cardinality(Keys) + 1
            ELSE IF result'.op = "deleteProduct" /\ result'.kind = "Ok"
            THEN Cardinality(Keys) - 1
            ELSE Cardinality(Keys)]_vars
    /\ [][(result'.op = "addProduct" /\ result'.kind = "Ok") =>
            /\ result'.val.id \notin Keys
            /\ \A k \in Keys : productStorage'[k] = productStorage[k]]_vars
    /\ [](result.op = "getProducts" =>
            /\ result.kind = "Ok"
            /\ Len(result.val) = Cardinality(Keys)
            /\ Range(result.val) = {productStorage[k] : k \in Keys})

\* getProducts has just listed the one product left of two that were added,
\* the one with the smaller key having been deleted
C13_Witness ==
    /\ result.op = "getProducts"
    /\ Len(result.val) = 1
    /\ Cardinality(usedIds) = 2
    /\ result.val[1].id = IdOrder[2]
    /\ result.val[1].Ratings # <<>>

\* the fields of a payload that are empty
Missing(payload) ==
    {f \in {"name", "description", "URL"} : payload[f] = ""}

\* C14: every not-found error of getProduct, calculateAverageRating,
\* rateProduct, updateProduct and deleteProduct carries a message that
\* contains the requested id, and the validation error of addProduct a
\* message that names a missing field.
C14_MessagesIdentify ==
    /\ (result.op \in IdCalls /\ result.kind = "Err") =>
           result.id \in Range(result.val)
    /\ (result.op = "addProduct" /\ result.kind = "Err") =>
           Missing(result.payload) \cap Range(result.val) # {}

C16_LookupBeforeValidation ==
    [][(result'.op = "rateProduct") =>
        /\ (result'.id \notin Keys /\ Outside(result'.rating)) =>
               (result'.kind = "Err" /\ result'.val = <<"Product not found.">>)
        /\ result'.kind = "Trap" => result'.id \in Keys]_vars

\* rateProduct has just returned not-found for the rating 6 and an id that
\* was deleted
C16_Witness ==
    /\ result.op = "rateProduct"
    /\ result.kind = "Err"
    /\ result.rating = Num(6)
    /\ result.id \in usedIds \ Keys

\* C17: updateProduct on a stored id with a payload that has an empty name,
\* description or URL returns Ok and stores the payload's values, the empty
\* one included, while a record just added has none of the three empty.
C17_UpdateUnvalidated ==
    /\ [][(/\ result'.op = "updateProduct"
           /\ result'.id \in Keys
           /\ ~Valid(result'.payload)) =>
            /\ result'.kind = "Ok"
            /\ \A f \in {"name", "description", "URL"} :
                   productStorage'[result'.id][f] = result'.payload[f]]_vars
    /\ [][\A k \in DOMAIN productStorage' \ Keys : Valid(productStorage'[k])]_vars

\* a stored product has an empty name
C17_Witness ==
    \E k \in Keys :
        /\ productStorage[k].name = ""
        /\ productStorage[k].description # ""
        /\ productStorage[k].updated_at # None

\* C18: getProducts, getProduct and calculateAverageRating leave the store
\* as it was; the set of keys grows by one key in a successful addProduct,
\* shrinks by one key in a successful deleteProduct and is left alone by
\* every other call, rateProduct and updateProduct included.
C18_Frame ==
    /\ [][result'.op \in {"getProducts", "getProduct", "calculateAverageRating"} =>
            productStorage' = productStorage]_vars
    /\ [][\/ /\ result'.op = "addProduct" /\ result'.kind = "Ok"
             /\ \E k \in Ids \ Keys : DOMAIN productStorage' = Keys \cup {k}
          \/ /\ result'.op = "deleteProduct" /\ result'.kind = "Ok"
             /\ \E k \in Keys : DOMAIN productStorage' = Keys \ {k}
          \/ /\ ~(result'.op \in {"addProduct", "deleteProduct"} /\ result'.kind = "Ok")
             /\ DOMAIN productStorage' = Keys]_vars

\* calculateAverageRating has just returned the average of two ratings
C18_Witness ==
    /\ result.op = "calculateAverageRating"
    /\ result.kind = "Ok"
    /\ Len(productStorage[result.id].Ratings) = 2
    /\ result.val # DZero
    /\ Cardinality(Keys) = 2

====
